---- MODULE Spec2Model ----
(***************************************************************************)
(* Model of the WebQA form component (frontend/src/App.jsx): the list of   *)
(* URL entries, the question, the error state, the loading flag, the       *)
(* answer, and the asynchronous submission.                                *)
(*                                                                         *)
(* A text is a sequence of one-character strings.  Indices of the URL list *)
(* are the source's 0-based indices; the entry of index i is urls[i + 1].  *)
(***************************************************************************)
EXTENDS Integers, Sequences, FiniteSets, TLC

VARIABLES
    urls,       \* useState([""]): the texts of the URL entries
    question,   \* useState(""): the text of the question
    answer,     \* useState(""): the answer shown, "" for none
    loading,    \* useState(false)
    errors,     \* useState({ urls: {}, question: "", general: "" })
    calls,      \* the invocations of handleSubmit suspended at their await,
                \* oldest first, each with its validUrls and its question
    last        \* the handler that ran last

vars == <<urls, question, answer, loading, errors, calls, last>>

(***************************************************************************)
(* Bounds of the model.                                                    *)
(***************************************************************************)
\* longest URL list the handlers build
MaxUrls == 2
\* most submissions awaiting their completion at once
MaxCalls == 2
\* longest URL list handed to validateForm alone
MaxValidateUrls == 3

(***************************************************************************)
(* Texts.                                                                  *)
(***************************************************************************)
T_empty == <<>>
T_space == <<" ">>
T_http == <<"h", "t", "t", "p", ":", "/", "/", "a">>
T_https == <<"h", "t", "t", "p", "s", ":", "/", "/", "a">>
T_padded == <<" ", "h", "t", "t", "p", ":", "/", "/", "a", " ">>
T_upper == <<"H", "T", "T", "P", ":", "/", "/", "a">>
T_noslash == <<"h", "t", "t", "p", ":", "a">>
T_word == <<"a">>
T_ftp == <<"f", "t", "p", ":", "/", "/", "a">>
T_nohost == <<"h", "t", "t", "p", ":", "/", "/">>
T_gap == <<"h", "t", "t", "p", ":", "/", "/", "a", " ", "a">>
T_port == <<"h", "t", "t", "p", ":", "/", "/", "a", ":", "a">>

\* the texts a user types into a URL field of the running form
UrlTexts == {T_empty, T_space, T_http, T_https, T_word}

\* the texts validateForm is applied to on its own
AllUrlTexts ==
    {T_empty, T_space, T_http, T_https, T_padded, T_upper, T_noslash,
     T_word, T_ftp, T_nohost, T_gap, T_port}

\* the texts a caller passes to handleUrlChange
DirectUrlTexts == {T_empty, T_http, T_word}

\* the texts a user types into the question field
QuestionTexts == {T_empty, T_space, T_word}

\* the questions validateForm is applied to on its own
AllQuestionTexts == {T_empty, T_space, T_word, <<" ", "a", " ">>}

(***************************************************************************)
(* String.prototype.trim: strips the white space at both ends.             *)
(***************************************************************************)
IsWhiteSpace(c) == c = " "

RECURSIVE trimStart(_)
trimStart(s) ==
    IF s = <<>> THEN <<>>
    ELSE IF IsWhiteSpace(Head(s)) THEN trimStart(Tail(s)) ELSE s

RECURSIVE trimEnd(_)
trimEnd(s) ==
    IF s = <<>> THEN <<>>
    ELSE IF IsWhiteSpace(s[Len(s)]) THEN trimEnd(SubSeq(s, 1, Len(s) - 1)) ELSE s

trim(s) == trimEnd(trimStart(s))

(***************************************************************************)
(* new URL(urlString), without a base: the parser of the URL standard on   *)
(* the alphabet of the texts above.                                        *)
(***************************************************************************)
UpperAlpha == {"H", "T", "P", "S"}
LowerAlpha == {"a", "f", "h", "p", "s", "t"}

IsAlpha(c) == c \in UpperAlpha \cup LowerAlpha

toLowerCase(c) ==
    CASE c = "H" -> "h"
      [] c = "T" -> "t"
      [] c = "P" -> "p"
      [] c = "S" -> "s"
      [] OTHER -> c

\* the schemes the URL standard calls special, among those of the alphabet
SpecialSchemes ==
    {<<"h", "t", "t", "p">>, <<"h", "t", "t", "p", "s">>, <<"f", "t", "p">>}

ParseFailure == [ok |-> FALSE, protocol |-> <<>>]

\* position of the first ":" of t, 0 when there is none
FirstColon(t) ==
    IF \E k \in 1..Len(t) : t[k] = ":"
    THEN CHOOSE k \in 1..Len(t) : t[k] = ":" /\ \A j \in 1..(k - 1) : t[j] # ":"
    ELSE 0

RECURSIVE skipSlashes(_)
skipSlashes(s) ==
    IF s # <<>> /\ Head(s) = "/" THEN skipSlashes(Tail(s)) ELSE s

\* the authority: what precedes the first "/" of s
authorityOf(s) ==
    IF \E k \in 1..Len(s) : s[k] = "/"
    THEN SubSeq(s, 1, (CHOOSE k \in 1..Len(s) :
                          s[k] = "/" /\ \A j \in 1..(k - 1) : s[j] # "/") - 1)
    ELSE s

\* host and port of an authority: the host is a non-empty run of letters,
\* the port, when present, follows ":" and holds digits only (the alphabet
\* has none, so a port is empty)
authorityOk(a) ==
    LET c == FirstColon(a)
        host == IF c = 0 THEN a ELSE SubSeq(a, 1, c - 1)
        port == IF c = 0 THEN <<>> ELSE SubSeq(a, c + 1, Len(a))
    IN  /\ host # <<>>
        /\ \A k \in 1..Len(host) : IsAlpha(host[k])
        /\ port = <<>>

parseURL(urlString) ==
    LET t == trim(urlString)     \* leading and trailing C0 control or space
        c == FirstColon(t)
    IN  IF c < 2 \/ \E k \in 1..(c - 1) : ~IsAlpha(t[k])
        THEN ParseFailure        \* no scheme and no base
        ELSE LET scheme == [k \in 1..(c - 1) |-> toLowerCase(t[k])]
                 rest == SubSeq(t, c + 1, Len(t))
             IN  IF scheme \in SpecialSchemes
                 THEN IF authorityOk(authorityOf(skipSlashes(rest)))
                      THEN [ok |-> TRUE, protocol |-> scheme \o <<":">>]
                      ELSE ParseFailure
                 ELSE [ok |-> TRUE, protocol |-> scheme \o <<":">>]

isValidUrl(urlString) ==
    LET url == parseURL(urlString)
    IN  IF url.ok
        THEN url.protocol = <<"h", "t", "t", "p", ":">>
             \/ url.protocol = <<"h", "t", "t", "p", "s", ":">>
        ELSE FALSE

(***************************************************************************)
(* Messages.                                                               *)
(***************************************************************************)
UrlMessage == "Please enter a valid URL (e.g., https://example.com)"
NoUrlMessage == "Please enter at least one URL"
QuestionMessage == "Please enter a question"
FailureMessage == "An error occurred while processing your request"
SampleAnswer == "This is a sample answer based on the provided URLs."

\* errors.urls with no key
NoUrlErrors == [i \in {} |-> UrlMessage]

\* { urls: {}, question: "", general: "" }
NoErrors == [urls |-> NoUrlErrors, question |-> "", general |-> ""]

\* delete obj[index]
deleteKey(obj, index) == [i \in (DOMAIN obj) \ {index} |-> obj[i]]

\* { ...obj, [index]: message }
setKey(obj, index, message) ==
    [i \in (DOMAIN obj) \cup {index} |-> IF i = index THEN message ELSE obj[i]]

\* the indices of a list
Indices(us) == 0..(Len(us) - 1)

(***************************************************************************)
(* The handler that ran last: its name, its index argument when it has     *)
(* one, the length of urls when it was entered and, for the handlers that  *)
(* run validateForm, what validateForm returned.                           *)
(***************************************************************************)
Mounted == [op |-> "mount", args |-> <<>>, len |-> 1, ret |-> <<>>]

Ran(op, args, ret) ==
    last' = [op |-> op, args |-> args, len |-> Len(urls), ret |-> ret]

(***************************************************************************)
(* The state after the first render.                                       *)
(***************************************************************************)
Init ==
    /\ urls = <<T_empty>>
    /\ question = T_empty
    /\ answer = ""
    /\ loading = FALSE
    /\ errors = NoErrors
    /\ calls = <<>>
    /\ last = Mounted

(***************************************************************************)
(* Values the render derives from the state.                               *)
(***************************************************************************)
\* hasValidUrls testing the entries for text only
hasValidUrlsAnyText ==
    \E k \in 1..Len(urls) : trim(urls[k]) # <<>>

hasValidUrls ==
    \E k \in 1..Len(urls) : trim(urls[k]) # <<>> /\ isValidUrl(urls[k])

\* the "disabled" attribute of the question field
questionDisabled == ~hasValidUrls

\* the submit button disabled by the list alone
submitDisabledWhileIdleOnly == ~hasValidUrls

\* the submit button disabled while loading only
submitDisabledWhileLoadingOnly == loading

\* the "disabled" attribute of the submit button
submitDisabled == loading \/ ~hasValidUrls

\* the "disabled" attribute of the remove button of every entry
removeDisabled == Len(urls) = 1

(***************************************************************************)
(* The handlers.                                                           *)
(***************************************************************************)
\* handleUrlChange writing through to the requests in flight
handleUrlChangeShared(index, value) ==
    LET newUrls == [urls EXCEPT ![index + 1] = value]
        newErrors == [errors EXCEPT !.urls = deleteKey(errors.urls, index)]
    IN  /\ urls' = newUrls
        /\ errors' = IF trim(value) # <<>> /\ ~isValidUrl(value)
                     THEN [newErrors EXCEPT
                             !.urls = setKey(newErrors.urls, index, UrlMessage)]
                     ELSE newErrors
        /\ calls' = [k \in 1..Len(calls) |->
                        [calls[k] EXCEPT
                           !.urls = SelectSeq(newUrls,
                                              LAMBDA url : trim(url) # <<>>
                                                           /\ isValidUrl(url))]]
        /\ Ran("handleUrlChange", <<index>>, <<>>)
        /\ UNCHANGED <<question, answer, loading>>

\* newUrls[index] = value on a copy of us: an index of the list replaces the
\* entry, the index Len(us) appends one, a negative index sets a property
\* that is no element.  (An index beyond Len(us) would leave holes; the
\* handlers are not called with one.)
assignAt(us, index, value) ==
    CASE index \in Indices(us) -> [us EXCEPT ![index + 1] = value]
      [] index = Len(us) -> Append(us, value)
      [] index < 0 -> us

\* handleUrlChange without the delete of the entry's earlier error
handleUrlChangeKeepsError(index, value) ==
    /\ urls' = [urls EXCEPT ![index + 1] = value]
    /\ errors' = IF trim(value) # <<>> /\ ~isValidUrl(value)
                 THEN [errors EXCEPT
                         !.urls = setKey(errors.urls, index, UrlMessage)]
                 ELSE errors
    /\ Ran("handleUrlChange", <<index>>, <<>>)
    /\ UNCHANGED <<question, answer, loading, calls>>

handleUrlChange(index, value) ==
    LET newUrls == assignAt(urls, index, value)
        newErrors == [errors EXCEPT !.urls = deleteKey(errors.urls, index)]
    IN  /\ urls' = newUrls
        /\ errors' = IF trim(value) # <<>> /\ ~isValidUrl(value)
                     THEN [newErrors EXCEPT
                             !.urls = setKey(newErrors.urls, index, UrlMessage)]
                     ELSE newErrors
        /\ Ran("handleUrlChange", <<index>>, <<>>)
        /\ UNCHANGED <<question, answer, loading, calls>>

addUrlField ==
    /\ urls' = Append(urls, T_empty)
    /\ Ran("addUrlField", <<>>, <<>>)
    /\ UNCHANGED <<question, answer, loading, errors, calls>>

\* urls.filter((_, i) => i !== index)
withoutIndex(us, index) ==
    [k \in 1..(Len(us) - (IF index \in Indices(us) THEN 1 ELSE 0)) |->
        IF k - 1 < index \/ index < 0 THEN us[k] ELSE us[k + 1]]

\* removeUrlField without the blank entry pushed into an emptied list
removeUrlFieldNoRefill(index) ==
    /\ urls' = withoutIndex(urls, index)
    /\ errors' = [errors EXCEPT !.urls = deleteKey(errors.urls, index)]
    /\ Ran("removeUrlField", <<index>>, <<>>)
    /\ UNCHANGED <<question, answer, loading, calls>>

\* removeUrlField leaving the list alone when the filter empties it
removeUrlFieldKeepsLast(index) ==
    LET filtered == withoutIndex(urls, index)
        newUrls == IF Len(filtered) = 0 THEN urls ELSE filtered
    IN  /\ urls' = newUrls
        /\ errors' = [errors EXCEPT !.urls = deleteKey(errors.urls, index)]
        /\ Ran("removeUrlField", <<index>>, <<>>)
        /\ UNCHANGED <<question, answer, loading, calls>>

removeUrlField(index) ==
    LET filtered == withoutIndex(urls, index)
        newUrls == IF Len(filtered) = 0 THEN <<T_empty>> ELSE filtered
    IN  /\ urls' = newUrls
        /\ errors' = [errors EXCEPT !.urls = deleteKey(errors.urls, index)]
        /\ Ran("removeUrlField", <<index>>, <<>>)
        /\ UNCHANGED <<question, answer, loading, calls>>

\* onChange of the question field resetting the whole error state
questionOnChangeClearsAll(value) ==
    /\ question' = value
    /\ errors' = NoErrors
    /\ Ran("questionOnChange", <<>>, <<>>)
    /\ UNCHANGED <<urls, answer, loading, calls>>

\* onChange of the question field
questionOnChange(value) ==
    /\ question' = value
    /\ errors' = [errors EXCEPT !.question = ""]
    /\ Ran("questionOnChange", <<>>, <<>>)
    /\ UNCHANGED <<urls, answer, loading, calls>>

IsNonBlank(url) == trim(url) # <<>>

IsNonBlankValid(url) == trim(url) # <<>> /\ isValidUrl(url)

\* validateForm without the pass over the entries
validateFormPresenceOnly(us, q) ==
    LET validUrls == SelectSeq(us, IsNonBlank)
        general == IF Len(validUrls) = 0 THEN NoUrlMessage ELSE ""
        quest == IF trim(q) = <<>> THEN QuestionMessage ELSE ""
    IN  [isValid |-> Len(validUrls) # 0 /\ trim(q) # <<>>,
         errors |-> [urls |-> NoUrlErrors,
                     question |-> quest,
                     general |-> general]]

\* validateForm testing every entry, the blank ones too
validateFormFlagsBlank(us, q) ==
    LET validUrls == SelectSeq(us, IsNonBlank)
        general == IF Len(validUrls) = 0 THEN NoUrlMessage ELSE ""
        bad == IF Len(validUrls) = 0 THEN {}
               ELSE {i \in Indices(us) : ~isValidUrl(us[i + 1])}
        quest == IF trim(q) = <<>> THEN QuestionMessage ELSE ""
    IN  [isValid |-> Len(validUrls) # 0 /\ bad = {} /\ trim(q) # <<>>,
         errors |-> [urls |-> [i \in bad |-> UrlMessage],
                     question |-> quest,
                     general |-> general]]

\* validateForm counting as present every entry that is not the empty string
validateFormUntrimmed(us, q) ==
    LET validUrls == SelectSeq(us, LAMBDA url : url # <<>>)
        general == IF Len(validUrls) = 0 THEN NoUrlMessage ELSE ""
        bad == IF Len(validUrls) = 0 THEN {}
               ELSE {i \in Indices(us) :
                        trim(us[i + 1]) # <<>> /\ ~isValidUrl(us[i + 1])}
        quest == IF trim(q) = <<>> THEN QuestionMessage ELSE ""
    IN  [isValid |-> Len(validUrls) # 0 /\ bad = {} /\ trim(q) # <<>>,
         errors |-> [urls |-> [i \in bad |-> UrlMessage],
                     question |-> quest,
                     general |-> general]]

\* validateForm keying an error by the position of the entry among the
\* non-blank entries
validateFormFilteredIndex(us, q) ==
    LET validUrls == SelectSeq(us, IsNonBlank)
        general == IF Len(validUrls) = 0 THEN NoUrlMessage ELSE ""
        bad == {i \in Indices(validUrls) : ~isValidUrl(validUrls[i + 1])}
        quest == IF trim(q) = <<>> THEN QuestionMessage ELSE ""
    IN  [isValid |-> Len(validUrls) # 0 /\ bad = {} /\ trim(q) # <<>>,
         errors |-> [urls |-> [i \in bad |-> UrlMessage],
                     question |-> quest,
                     general |-> general]]

\* validateForm counting the errors already in the state against the form
validateFormReadsErrors(us, q) ==
    LET validUrls == SelectSeq(us, IsNonBlank)
        general == IF Len(validUrls) = 0 THEN NoUrlMessage ELSE ""
        bad == IF Len(validUrls) = 0 THEN {}
               ELSE {i \in Indices(us) :
                        trim(us[i + 1]) # <<>> /\ ~isValidUrl(us[i + 1])}
        quest == IF trim(q) = <<>> THEN QuestionMessage ELSE ""
    IN  [isValid |-> /\ Len(validUrls) # 0 /\ bad = {} /\ trim(q) # <<>>
                     /\ errors.general = "",
         errors |-> [urls |-> [i \in bad |-> UrlMessage],
                     question |-> quest,
                     general |-> general]]

\* validateForm on the rendered urls and question: what it returns and the
\* errors it sets
validateForm(us, q) ==
    LET validUrls == SelectSeq(us, IsNonBlank)
        general == IF Len(validUrls) = 0 THEN NoUrlMessage ELSE ""
        bad == IF Len(validUrls) = 0 THEN {}
               ELSE {i \in Indices(us) :
                        trim(us[i + 1]) # <<>> /\ ~isValidUrl(us[i + 1])}
        quest == IF trim(q) = <<>> THEN QuestionMessage ELSE ""
    IN  [isValid |-> Len(validUrls) # 0 /\ bad = {} /\ trim(q) # <<>>,
         errors |-> [urls |-> [i \in bad |-> UrlMessage],
                     question |-> quest,
                     general |-> general]]

\* handleSubmit clearing the answer before it validates
handleSubmitClearsFirst ==
    LET v == validateForm(urls, question)
    IN  /\ Ran("handleSubmit", <<>>, <<v.isValid>>)
        /\ answer' = ""
        /\ IF ~v.isValid
           THEN /\ errors' = v.errors
                /\ UNCHANGED <<urls, question, loading, calls>>
           ELSE /\ loading' = TRUE
                /\ errors' = NoErrors
                /\ calls' = Append(calls,
                                   [urls |-> SelectSeq(urls, IsNonBlankValid),
                                    question |-> question])
                /\ UNCHANGED <<urls, question>>

\* handleSubmit without the reset of the answer
handleSubmitKeepsAnswer ==
    LET v == validateForm(urls, question)
    IN  /\ Ran("handleSubmit", <<>>, <<v.isValid>>)
        /\ IF ~v.isValid
           THEN /\ errors' = v.errors
                /\ UNCHANGED <<urls, question, answer, loading, calls>>
           ELSE /\ loading' = TRUE
                /\ errors' = NoErrors
                /\ calls' = Append(calls,
                                   [urls |-> SelectSeq(urls, IsNonBlankValid),
                                    question |-> question])
                /\ UNCHANGED <<urls, question, answer>>

\* handleSubmit up to its await
handleSubmit ==
    LET v == validateForm(urls, question)
    IN  /\ Ran("handleSubmit", <<>>, <<v.isValid>>)
        /\ IF ~v.isValid
           THEN /\ errors' = v.errors
                /\ UNCHANGED <<urls, question, answer, loading, calls>>
           ELSE /\ loading' = TRUE
                /\ errors' = NoErrors
                /\ answer' = ""
                /\ calls' = Append(calls,
                                   [urls |-> SelectSeq(urls, IsNonBlankValid),
                                    question |-> question])
                /\ UNCHANGED <<urls, question>>

\* the resolved branch without the finally block
resolvedStaysLoading ==
    /\ calls # <<>>
    /\ calls' = Tail(calls)
    /\ answer' = SampleAnswer
    /\ Ran("resolved", <<>>, <<>>)
    /\ UNCHANGED <<urls, question, errors, loading>>

\* handleSubmit after its await, the awaited promise resolved
resolved ==
    /\ calls # <<>>
    /\ calls' = Tail(calls)
    /\ answer' = SampleAnswer
    /\ loading' = FALSE
    /\ Ran("resolved", <<>>, <<>>)
    /\ UNCHANGED <<urls, question, errors>>

\* the rejected branch with a catch block that sets no error
rejectedSilently ==
    /\ calls # <<>>
    /\ calls' = Tail(calls)
    /\ loading' = FALSE
    /\ Ran("rejected", <<>>, <<>>)
    /\ UNCHANGED <<urls, question, answer, errors>>

\* handleSubmit after its await, the awaited promise rejected: the catch
\* and finally blocks.  The promise the source awaits is a timer, which only
\* resolves; this is the branch an answer service that fails takes.
rejected ==
    /\ calls # <<>>
    /\ calls' = Tail(calls)
    /\ errors' = [errors EXCEPT !.general = FailureMessage]
    /\ loading' = FALSE
    /\ Ran("rejected", <<>>, <<>>)
    /\ UNCHANGED <<urls, question, answer>>

(***************************************************************************)
(* The form as the user drives it: an event reaches its handler only       *)
(* through a control that is rendered and not disabled.                    *)
(***************************************************************************)
ChangeUrl ==
    \E index \in Indices(urls), value \in UrlTexts : handleUrlChange(index, value)

ClickAdd ==
    /\ Len(urls) < MaxUrls
    /\ addUrlField

ClickRemove ==
    /\ ~removeDisabled
    /\ \E index \in Indices(urls) : removeUrlField(index)

ChangeQuestion ==
    /\ ~questionDisabled
    /\ \E value \in QuestionTexts : questionOnChange(value)

ClickSubmit ==
    /\ ~submitDisabled
    /\ Len(calls) < MaxCalls
    /\ handleSubmit

Next ==
    \/ ChangeUrl
    \/ ClickAdd
    \/ ClickRemove
    \/ ChangeQuestion
    \/ ClickSubmit
    \/ resolved
    \/ rejected

Spec == Init /\ [][Next]_vars

\* the awaited promise settles
Settle == resolved \/ rejected

\* the form as the user drives it, every awaited promise settling in the end
SpecLive == Init /\ [][Next]_vars /\ WF_vars(Settle)

(***************************************************************************)
(* The handlers called directly, whatever the controls show.               *)
(***************************************************************************)
CallHandleUrlChange ==
    \E index \in Indices(urls), value \in DirectUrlTexts :
        handleUrlChange(index, value)

CallAddUrlField ==
    /\ Len(urls) < MaxUrls
    /\ addUrlField

CallRemoveUrlField ==
    \E index \in Indices(urls) : removeUrlField(index)

CallQuestionOnChange ==
    \E value \in QuestionTexts : questionOnChange(value)

\* handleUrlChange called with the first index past the end of the list
CallHandleUrlChangePastEnd ==
    /\ Len(urls) < MaxUrls
    /\ \E value \in DirectUrlTexts : handleUrlChange(Len(urls), value)

\* removeUrlField called with the first index past the end of the list
CallRemoveUrlFieldPastEnd == removeUrlField(Len(urls))

CallHandleSubmit ==
    /\ Len(calls) < MaxCalls
    /\ handleSubmit

NextDirect ==
    \/ CallHandleUrlChange
    \/ CallAddUrlField
    \/ CallRemoveUrlField
    \/ CallQuestionOnChange
    \/ CallHandleUrlChangePastEnd
    \/ CallRemoveUrlFieldPastEnd
    \/ CallHandleSubmit
    \/ resolved
    \/ rejected

SpecDirect == Init /\ [][NextDirect]_vars

(***************************************************************************)
(* validateForm on its own: any list, any question, any errors left by an  *)
(* earlier pass.                                                           *)
(***************************************************************************)
UrlLists == UNION {[1..n -> AllUrlTexts] : n \in 1..MaxValidateUrls}

PriorErrors ==
    {NoErrors,
     [urls |-> [i \in {0, 1} |-> UrlMessage],
      question |-> QuestionMessage,
      general |-> NoUrlMessage]}

InitValidate ==
    /\ urls \in UrlLists
    /\ question \in AllQuestionTexts
    /\ errors \in PriorErrors
    /\ answer = ""
    /\ loading = FALSE
    /\ calls = <<>>
    /\ last = Mounted

\* validateForm called; the argument recorded is whether this call is the
\* first on this list and question or a call that follows another
CallValidateForm ==
    LET v == validateForm(urls, question)
        run == IF last.op = "validateForm" THEN "again" ELSE "first"
    IN  /\ errors' = v.errors
        /\ Ran("validateForm", <<run>>, <<v.isValid>>)
        /\ UNCHANGED <<urls, question, answer, loading, calls>>

NextValidate == CallValidateForm

SpecValidate == InitValidate /\ [][NextValidate]_vars

(***************************************************************************)
(* Properties.                                                             *)
(***************************************************************************)
\* the handlers that edit the URL list or the question
EditOps == {"handleUrlChange", "addUrlField", "removeUrlField", "questionOnChange"}

\* u is v with some of its elements dropped, the others in their order
IsSubsequence(u, v) ==
    \E f \in [1..Len(u) -> 1..Len(v)] :
        /\ \A k \in 1..Len(u) : u[k] = v[f[k]]
        /\ \A j, k \in 1..Len(u) : j < k => f[j] < f[k]

\* C1: whatever handlers run, in whatever order, the URL list holds at
\* least one entry.
C1_NeverEmpty == Len(urls) >= 1

\* removeUrlField ran on a list of one entry and left one blank entry
C1_Witness ==
    /\ last.op = "removeUrlField"
    /\ last.len = 1
    /\ urls = <<T_empty>>

\* C2: with the events reaching the handlers through the controls, at most
\* one call of the answer service is awaiting its completion.
C2_OneCallInFlight == Len(calls) <= 1

\* a call is in flight, the form would pass validation again, and the user
\* has just edited a field
C2_Witness ==
    /\ Len(calls) = 1
    /\ loading
    /\ last.op = "handleUrlChange"
    /\ validateForm(urls, question).isValid

\* C3: handleSubmit entered while loading changes nothing: no second call,
\* and urls, question, errors, answer and loading as they were.
C3_SubmitWhileLoadingIsNoOp ==
    [][(loading /\ last'.op = "handleSubmit")
          => UNCHANGED <<urls, question, errors, answer, loading, calls>>]_vars

\* C4: the input of every call of the answer service is well-formed: a
\* non-empty list of the non-blank valid entries of urls, in their order,
\* taken when urls has no non-blank invalid entry, with a question whose
\* trimmed text is not empty.
C4_ServiceInputWellFormed ==
    [][Len(calls') > Len(calls)
          => LET c == calls'[Len(calls')]
             IN  /\ Len(calls') = Len(calls) + 1
                 /\ c.urls # <<>>
                 /\ \A k \in 1..Len(c.urls) :
                       trim(c.urls[k]) # <<>> /\ isValidUrl(c.urls[k])
                 /\ IsSubsequence(c.urls, urls)
                 /\ Len(c.urls) =
                       Cardinality({k \in 1..Len(urls) :
                                       trim(urls[k]) # <<>> /\ isValidUrl(urls[k])})
                 /\ \A k \in 1..Len(urls) :
                       trim(urls[k]) # <<>> => isValidUrl(urls[k])
                 /\ trim(c.question) # <<>>
                 /\ c.question = question]_vars

\* a call was issued for a list of a blank entry followed by a valid one
C4_Witness ==
    /\ last.op = "handleSubmit"
    /\ last.ret = <<TRUE>>
    /\ Len(calls) = 1
    /\ urls = <<T_space, T_https>>
    /\ calls[1].urls = <<T_https>>

\* C5: when validateForm returns false, handleSubmit issues no call, leaves
\* loading and answer as they were, and the errors are those validateForm
\* computed for the list and the question.
C5_InvalidSubmitOnlySetsErrors ==
    [][(last'.op = "handleSubmit" /\ last'.ret = <<FALSE>>)
          => /\ calls' = calls
             /\ loading' = loading
             /\ answer' = answer
             /\ urls' = urls
             /\ question' = question
             /\ errors' = validateForm(urls, question).errors]_vars

\* a submit was refused with an entry in error while an earlier answer is
\* shown
C5_Witness ==
    /\ last.op = "handleSubmit"
    /\ last.ret = <<FALSE>>
    /\ answer = SampleAnswer
    /\ ~loading
    /\ DOMAIN errors.urls # {}

\* C6: an edit of the list or of the question while a call is in flight
\* leaves the input of that call as it was.
C6_EditsLeaveRequestAlone ==
    [][(calls # <<>> /\ last'.op \in EditOps) => calls' = calls]_vars

\* a call is in flight and its urls are no longer the valid entries of the
\* list, which was edited since
C6_Witness ==
    /\ Len(calls) = 1
    /\ last.op = "handleUrlChange"
    /\ calls[1].urls = <<T_http>>
    /\ urls = <<T_word>>

\* C7 as stated: for a list with a non-blank entry, all of whose non-blank
\* entries are valid, and a question that is not the empty string (a
\* question of white space included), validateForm returns true and sets
\* no error.
C7_AnyNonEmptyQuestion ==
    (/\ last.op = "validateForm"
     /\ \E k \in 1..Len(urls) : trim(urls[k]) # <<>>
     /\ \A k \in 1..Len(urls) : trim(urls[k]) # <<>> => isValidUrl(urls[k])
     /\ question # <<>>)
        => last.ret = <<TRUE>> /\ errors = NoErrors

\* C7: for a list with a non-blank entry, all of whose non-blank entries
\* are valid, and a question whose trimmed text is not empty, validateForm
\* returns true and sets no url error, no question error and no general
\* error.
C7_ValidFormPasses ==
    (/\ last.op = "validateForm"
     /\ \E k \in 1..Len(urls) : trim(urls[k]) # <<>>
     /\ \A k \in 1..Len(urls) : trim(urls[k]) # <<>> => isValidUrl(urls[k])
     /\ trim(question) # <<>>)
        => /\ last.ret = <<TRUE>>
           /\ DOMAIN errors.urls = {}
           /\ errors.question = ""
           /\ errors.general = ""

\* validateForm passed a list of a blank entry and a padded valid URL with
\* a padded question
C7_Witness ==
    /\ last.op = "validateForm"
    /\ last.ret = <<TRUE>>
    /\ urls = <<T_space, T_padded>>
    /\ question = <<" ", "a", " ">>
    /\ errors = NoErrors

\* C8: validateForm sets the general error "Please enter at least one URL"
\* exactly when every entry is blank; it then returns false whatever the
\* question; with a non-blank entry, valid or not, it sets no general error.
C8_GeneralErrorIffAllBlank ==
    last.op = "validateForm"
        => LET allBlank == \A k \in 1..Len(urls) : trim(urls[k]) = <<>>
           IN  /\ (errors.general = NoUrlMessage) <=> allBlank
               /\ allBlank => last.ret = <<FALSE>>
               /\ ~allBlank => errors.general = ""

\* validateForm refused a list of blank entries, one of them white space,
\* with a good question
C8_Witness ==
    /\ last.op = "validateForm"
    /\ last.ret = <<FALSE>>
    /\ urls = <<T_empty, T_space>>
    /\ question = T_word
    /\ errors.general = NoUrlMessage
    /\ errors.question = ""

\* C9: after validateForm the indices with a url error are exactly those of
\* the non-blank entries that are not valid URLs, each with the url
\* message, and validateForm returned false when there is one.
C9_UrlErrorsExact ==
    last.op = "validateForm"
        => LET bad == {i \in Indices(urls) :
                          trim(urls[i + 1]) # <<>> /\ ~isValidUrl(urls[i + 1])}
           IN  /\ DOMAIN errors.urls = bad
               /\ \A i \in bad : errors.urls[i] = UrlMessage
               /\ bad # {} => last.ret = <<FALSE>>

\* validateForm flagged the second of three entries, after a blank one and
\* before a valid one
C9_Witness ==
    /\ last.op = "validateForm"
    /\ urls = <<T_space, T_nohost, T_http>>
    /\ DOMAIN errors.urls = {1}
    /\ last.ret = <<FALSE>>

\* C10: while no entry is both non-blank and a valid URL the question field
\* and the submit button are disabled and neither the question handler nor
\* handleSubmit runs; while loading the submit button is disabled and
\* handleSubmit does not run.
C10_ControlsDisabled ==
    [][LET noValid == \A k \in 1..Len(urls) :
                         trim(urls[k]) = <<>> \/ ~isValidUrl(urls[k])
       IN  /\ noValid => /\ questionDisabled
                         /\ submitDisabled
                         /\ last'.op \notin {"questionOnChange", "handleSubmit"}
           /\ loading => /\ submitDisabled
                         /\ last'.op # "handleSubmit"]_vars

\* loading, after the only valid entry was overwritten with text that is no
\* URL: both controls are disabled
C10_Witness ==
    /\ loading
    /\ last.op = "handleUrlChange"
    /\ urls = <<T_word>>
    /\ questionDisabled
    /\ submitDisabled

C12_RemoveLastLeavesBlank ==
    [][(last'.op = "removeUrlField" /\ Len(urls) = 1 /\ last'.args = <<0>>)
          => Len(urls') = 1 /\ urls'[1] = T_empty /\ trim(urls'[1]) = <<>>]_vars

\* the only entry was removed while a call made with it is in flight
C12_Witness ==
    /\ last.op = "removeUrlField"
    /\ last.len = 1
    /\ last.args = <<0>>
    /\ urls = <<T_empty>>
    /\ Len(calls) = 1
    /\ calls[1].urls = <<T_http>>

\* C13: with every awaited promise settling in the end, loading is set
\* exactly while a call is in flight, and every loading state is followed by
\* a state, reached by the settling of the call, that is not loading and
\* shows either the answer or the failure message; the submit button is
\* then disabled for no other reason than the list.
C13_LoadingEnds ==
    /\ [](loading <=> calls # <<>>)
    /\ loading ~> (/\ ~loading
                   /\ calls = <<>>
                   /\ last.op \in {"resolved", "rejected"}
                   /\ (answer = SampleAnswer \/ errors.general = FailureMessage)
                   /\ (submitDisabled <=> ~hasValidUrls))

\* the call settled with the answer: not loading, the answer shown, and the
\* submit button enabled again
C13_Witness ==
    /\ last.op = "resolved"
    /\ ~loading
    /\ calls = <<>>
    /\ answer = SampleAnswer
    /\ ~submitDisabled

\* C14: when the awaited call fails, the general error becomes the fixed
\* failure message, loading is reset, and urls and question are as they were
\* before the completion.
C14_FailureKeepsForm ==
    [][last'.op = "rejected"
          => /\ errors'.general = FailureMessage
             /\ loading' = FALSE
             /\ urls' = urls
             /\ question' = question
             /\ errors'.urls = errors.urls
             /\ errors'.question = errors.question]_vars

\* the call failed: the failure message is set over a form that would pass
\* validation again
C14_Witness ==
    /\ last.op = "rejected"
    /\ errors.general = FailureMessage
    /\ ~loading
    /\ urls = <<T_http, T_https>>
    /\ question = T_word

\* C15: handleUrlChange and removeUrlField called with an index that is no
\* index of the list fail with an IndexError and leave the list as it was.
C15_OutOfRangeRejected ==
    [][(/\ last'.op \in {"handleUrlChange", "removeUrlField"}
        /\ last'.args[1] \notin Indices(urls))
          => urls' = urls /\ last'.ret = <<"IndexError">>]_vars

\* C16: validateForm called again on the same list and question returns what
\* the call before it returned and leaves the errors that call set, whatever
\* the errors were before the first call.
C16_ValidateIdempotent ==
    [][(last.op = "validateForm" /\ last'.op = "validateForm")
          => /\ last'.ret = last.ret
             /\ errors' = errors
             /\ urls' = urls
             /\ question' = question]_vars

\* validateForm was called a second time on a list with an entry in error
\* and a blank question
C16_Witness ==
    /\ last.op = "validateForm"
    /\ last.args = <<"again">>
    /\ last.ret = <<FALSE>>
    /\ urls = <<T_http, T_ftp>>
    /\ question = T_space
    /\ DOMAIN errors.urls = {1}
    /\ errors.question = QuestionMessage

\* C17: in every state each index that carries a url error is an index of
\* the list, and the entry at that index is non-blank and no valid URL.
C17_ErrorsKeyedToEntries ==
    \A i \in DOMAIN errors.urls :
        /\ i \in Indices(urls)
        /\ trim(urls[i + 1]) # <<>>
        /\ ~isValidUrl(urls[i + 1])

\* the parts of the error state in which e and f differ: <<"urls", i>> for
\* the url error of index i, <<"question", 0>> and <<"general", 0>>
ErrorDiff(e, f) ==
    {<<"urls", i>> : i \in {j \in (DOMAIN e.urls) \cup (DOMAIN f.urls) :
                              \/ j \notin DOMAIN e.urls
                              \/ j \notin DOMAIN f.urls
                              \/ e.urls[j] # f.urls[j]}}
    \cup (IF e.question # f.question THEN {<<"question", 0>>} ELSE {})
    \cup (IF e.general # f.general THEN {<<"general", 0>>} ELSE {})

\* C18: handleUrlChange changes the error of its index at most; the
\* question handler clears the question error and changes nothing else of
\* the errors; and no handler but handleSubmit, which runs validateForm,
\* changes more than one part of the error state.
C18_EditsTouchOneError ==
    [][/\ last'.op = "handleUrlChange"
          => ErrorDiff(errors, errors') \subseteq {<<"urls", last'.args[1]>>}
       /\ last'.op = "questionOnChange"
          => /\ errors'.question = ""
             /\ ErrorDiff(errors, errors') \subseteq {<<"question", 0>>}
       /\ last'.op # "handleSubmit"
          => Cardinality(ErrorDiff(errors, errors')) <= 1]_vars

\* the question was edited: its error is gone, the url error of the second
\* entry and the failure message are still there
C18_Witness ==
    /\ last.op = "questionOnChange"
    /\ errors.question = ""
    /\ DOMAIN errors.urls = {1}
    /\ errors.general = FailureMessage
    /\ urls = <<T_http, T_word>>

\* C19: with the events reaching the handlers through the controls, the
\* state after a submit that passed validation is loading with no error and
\* no answer; no state is loading while an answer or the failure message is
\* shown; and no state shows an answer together with the failure message.
C19_OneSubmissionState ==
    /\ (last.op = "handleSubmit" /\ last.ret = <<TRUE>>)
          => loading /\ errors = NoErrors /\ answer = ""
    /\ loading => answer = "" /\ errors.general # FailureMessage
    /\ ~(answer # "" /\ errors.general = FailureMessage)

\* a submit has just passed validation: loading, the errors and the answer
\* empty, the call in flight
C19_Witness ==
    /\ last.op = "handleSubmit"
    /\ last.ret = <<TRUE>>
    /\ loading
    /\ answer = ""
    /\ errors = NoErrors
    /\ Len(calls) = 1
    /\ urls = <<T_https, T_empty>>

\* C20: with handleSubmit reached through the enabled submit button only,
\* the general error is never "Please enter at least one URL".
C20_NoUrlMessageNeverShown == errors.general # NoUrlMessage

\* a submit through the enabled button was refused by validateForm for an
\* entry that is no URL, with no general error
C20_Witness ==
    /\ last.op = "handleSubmit"
    /\ last.ret = <<FALSE>>
    /\ urls = <<T_http, T_word>>
    /\ DOMAIN errors.urls = {1}
    /\ errors.general = ""

====
